---- MODULE Spec2Model ----
(***************************************************************************)
(* A model of sb-vision: the marker geometry of tokens.py, the learned     *)
(* distance model and its memoised loader, the calibration parsers of      *)
(* find_3D_coords.py and distance_finding.py, the pose solver wrappers     *)
(* and the Vision driver.                                                  *)
(*                                                                         *)
(* Real numbers are exact rationals [n, d] (d > 0, reduced).  d = 0 holds  *)
(* the non-finite float64 values: [1,0] = inf, [-1,0] = -inf, [0,0] = nan. *)
(* Rounding of float64 and the sign of zero are not modelled.              *)
(***************************************************************************)
EXTENDS Integers, Sequences, FiniteSets, TLC

VARIABLES
    H,            \* the 9 doubles of apriltag_detection.H.data for this run
    dm,           \* the distance model of the camera, "None" for none
    cur,          \* the latest Token.from_apriltag_detection call
    prev,         \* the call before it
    modelCache,   \* the lru_cache of _get_distance_model
    vision,       \* the Vision object: its attributes and native resources
    lastCall,     \* the latest call of a Vision method and its outcome
    doc,          \* the calibration document on disk
    parsed,       \* the latest parse of doc and its outcome
    solve,        \* the latest call of calculate_transforms and its outcome
    loaderCache,  \* the lru_cache of the memoised loader that is exercised
    lastLoad,     \* the latest call of a memoised loader and its outcome
    history,      \* what the loads so far did to the first key
    threads,      \* the callers of the loader, each at a point of its call
    race,         \* the loader they call, its file reads and cache writes
    cmp,          \* three objects and the outcomes of == between them
    fit           \* the latest call of reconstruction_error and its outcome

tokVars == <<H, dm, cur, prev, modelCache>>

visVars == <<vision, lastCall>>

parseVars == <<doc, parsed>>

pnpVars == <<solve>>

cacheVars == <<loaderCache, lastLoad, history>>

raceVars == <<threads, race>>

eqVars == <<cmp>>

fitVars == <<fit>>

vars == <<tokVars, visVars, parseVars, pnpVars, cacheVars, raceVars, eqVars, fitVars>>

\* the variables an action of one part leaves alone
notTok == <<visVars, parseVars, pnpVars, cacheVars, raceVars, eqVars, fitVars>>

notVis == <<tokVars, parseVars, pnpVars, cacheVars, raceVars, eqVars, fitVars>>

notParse == <<tokVars, visVars, pnpVars, cacheVars, raceVars, eqVars, fitVars>>

notPnp == <<tokVars, visVars, parseVars, cacheVars, raceVars, eqVars, fitVars>>

notRace == <<tokVars, visVars, parseVars, pnpVars, cacheVars, eqVars, fitVars>>

notEq == <<tokVars, visVars, parseVars, pnpVars, cacheVars, raceVars, fitVars>>

notFit == <<tokVars, visVars, parseVars, pnpVars, cacheVars, raceVars, eqVars>>

notCache == <<tokVars, visVars, parseVars, pnpVars, raceVars, eqVars, fitVars>>

(***************************************************************************)
(* Bounds of the model.                                                    *)
(***************************************************************************)
MaxCoef == 2

MaxDetections == 3

MaxDim == 2

MaxTokens == 4

MaxCoord == 1

MaxNames == 129

MaxBefore == 2

MaxThreads == 2

MaxCalls == 1

MaxExamples == 2

(***************************************************************************)
(* float arithmetic, as exact rationals                                    *)
(***************************************************************************)
Abs(x) == IF x < 0 THEN -x ELSE x

Sgn(x) == IF x < 0 THEN -1 ELSE IF x > 0 THEN 1 ELSE 0

RECURSIVE Gcd(_, _)
Gcd(a, b) == IF b = 0 THEN a ELSE Gcd(b, a % b)

\* n / d as a float: a reduced fraction, or inf, -inf, nan when d = 0
Norm(n, d) ==
    IF d = 0 THEN [n |-> Sgn(n), d |-> 0]
    ELSE LET g == Gcd(Abs(n), Abs(d))
             s == Sgn(d)
         IN  [n |-> (s * n) \div g, d |-> (s * d) \div g]

Float(i) == [n |-> i, d |-> 1]

IsFinite(a) == a.d # 0

RMul(a, b) == Norm(a.n * b.n, a.d * b.d)

RDiv(a, b) == Norm(a.n * b.d, a.d * b.n)

RAdd(a, b) == Norm(a.n * b.d + b.n * a.d, a.d * b.d)

RNeg(a) == [n |-> -a.n, d |-> a.d]

\* numpy true division of two float64 scalars: no exception when z is 0
TrueDiv(x, z) == Norm(x, z)

(***************************************************************************)
(* tokens.py: homography geometry                                          *)
(***************************************************************************)
\* np.reshape(arr, (3, 3)): row-major
reshape33(arr) ==
    << <<arr[1], arr[2], arr[3]>>,
       <<arr[4], arr[5], arr[6]>>,
       <<arr[7], arr[8], arr[9]>> >>

\* ndarray.ravel(): row-major
ravel(m) == m[1] \o m[2] \o m[3]

\* m[col, k] with 0-based col and k; corner[0], corner[1] are corner[1], corner[2] here
_row_mul(m, corner, col) ==
    m[col + 1][1] * corner[1] + m[col + 1][2] * corner[2] + m[col + 1][3]

\* the transform without the perspective division
_homography_transform_affine(corner, homog) ==
    <<Float(_row_mul(homog, corner, 0)), Float(_row_mul(homog, corner, 1))>>

_homography_transform(corner, homog) ==
    LET z == _row_mul(homog, corner, 2)
        x == TrueDiv(_row_mul(homog, corner, 0), z)
        y == TrueDiv(_row_mul(homog, corner, 1), z)
    IN  <<x, y>>

corners == << <<-1, -1>>, <<-1, 1>>, <<1, 1>>, <<1, -1>> >>

_get_pixel_corners(homog) ==
    [k \in 1..Len(corners) |-> _homography_transform(corners[k], homog)]

_get_pixel_centre(homography_matrix) ==
    _homography_transform(<<0, 0>>, homography_matrix)

(***************************************************************************)
(* functools.lru_cache(): maxsize defaults to 128.  A cache is the         *)
(* sequence of its entries, least recently used first.                     *)
(***************************************************************************)
maxsize == 128

CacheHas(cache, key) == \E i \in 1..Len(cache) : cache[i].key = key

CacheGet(cache, key) ==
    cache[CHOOSE i \in 1..Len(cache) : cache[i].key = key].val

\* a hit moves the entry to the most recently used end
CacheTouch(cache, key) ==
    LET LOCAL_others == SelectSeq(cache, LAMBDA e : e.key # key)
    IN  Append(LOCAL_others, [key |-> key, val |-> CacheGet(cache, key)])

\* the cache full one entry early
CacheInsert_early(cache, key, val) ==
    IF CacheHas(cache, key) THEN cache
    ELSE IF Len(cache) >= maxsize - 1
         THEN Append(Tail(cache), [key |-> key, val |-> val])
         ELSE Append(cache, [key |-> key, val |-> val])

\* a miss whose call returned: the key may have been added during the call,
\* and then the entry is left as it is; a full cache drops its oldest entry
CacheInsert(cache, key, val) ==
    IF CacheHas(cache, key) THEN cache
    ELSE IF Len(cache) >= maxsize
         THEN Append(Tail(cache), [key |-> key, val |-> val])
         ELSE Append(cache, [key |-> key, val |-> val])

\* one call through the wrapper with no other caller in between; body is the
\* outcome [exc, val] of the wrapped function, used on a miss only, and an
\* exception of the body is passed on with nothing cached
lru_cache(cache, key, body) ==
    IF CacheHas(cache, key)
    THEN [exc |-> "none", val |-> CacheGet(cache, key),
          cache |-> CacheTouch(cache, key), called |-> FALSE]
    ELSE IF body.exc # "none"
         THEN [exc |-> body.exc, val |-> body.val,
               cache |-> cache, called |-> TRUE]
         ELSE [exc |-> "none", val |-> body.val,
               cache |-> CacheInsert(cache, key, body.val), called |-> TRUE]

(***************************************************************************)
(* tokens.py: the distance model                                           *)
(***************************************************************************)
RECURSIVE Dot(_, _)
Dot(u, v) == IF u = <<>> THEN 0 ELSE Head(u) * Head(v) + Dot(Tail(u), Tail(v))

\* a regressor of the artifact: one scalar from the 9 flattened elements
predict(model, flattened) == Dot(model, flattened)

NoArtifact == [resolution |-> <<0, 0>>, x_model |-> <<>>, z_model |-> <<>>]

\* pickle.load of <name>.pkl.xz
ModelFile(name) ==
    IF name = "modelA"
    THEN [resolution |-> <<640, 480>>,
          x_model |-> <<1, 0, 2, 0, 0, 0, 0, 0, 0>>,
          z_model |-> <<0, 0, 0, 0, 1, 1, 0, 0, 3>>]
    ELSE [resolution |-> <<1280, 720>>,
          x_model |-> <<0, 1, 1, 0, 0, 0, 1, 0, 0>>,
          z_model |-> <<2, 0, 0, 0, 0, 0, 0, 0, 1>>]

\* the body of _get_distance_model
GetDistanceModelBody(name, image_size) ==
    IF name = "None" THEN [exc |-> "ValueError", val |-> NoArtifact]
    ELSE LET calibration == ModelFile(name)
         IN  IF calibration.resolution # image_size
             THEN [exc |-> "ValueError", val |-> NoArtifact]
             ELSE [exc |-> "none", val |-> calibration]

\* the loader memoised by name alone
_get_distance_model_by_name(cache, name, image_size) ==
    lru_cache(cache, <<name>>, GetDistanceModelBody(name, image_size))

_get_distance_model(cache, name, image_size) ==
    lru_cache(cache, <<name, image_size>>, GetDistanceModelBody(name, image_size))

ReferenceMarkerEdge == [n |-> 1, d |-> 10]

\* the first edge taken for the size of the marker
mean_first_edge(marker_size) == marker_size[1]

\* np.mean of a (vertical, horizontal) pair
mean(marker_size) == RDiv(RAdd(marker_size[1], marker_size[2]), Float(2))

_get_cartesian(cache, homography_matrix, image_size, distance_model, marker_size) ==
    LET got == _get_distance_model(cache, distance_model, image_size)
        calibration == got.val
        flattened_homography_matrix == ravel(homography_matrix)
        x == predict(calibration.x_model, flattened_homography_matrix)
        y == 0
        z == predict(calibration.z_model, flattened_homography_matrix)
        effective_marker_size == mean(marker_size)
        effective_marker_scale == RDiv(effective_marker_size, ReferenceMarkerEdge)
    IN  IF got.exc # "none"
        THEN [exc |-> got.exc, val |-> <<>>, cache |-> got.cache,
              reads |-> 1, predicts |-> 0]
        ELSE [exc |-> "none",
              val |-> << RMul(Float(x), effective_marker_scale),
                         RMul(Float(y), effective_marker_scale),
                         RMul(Float(z), effective_marker_scale) >>,
              cache |-> got.cache,
              reads |-> IF got.called THEN 1 ELSE 0,
              predicts |-> 2]

(***************************************************************************)
(* tokens.py: Token                                                        *)
(***************************************************************************)
\* the reference edge taken for the default size
DEFAULT_TOKEN_SIZE_reference == << [n |-> 1, d |-> 10], [n |-> 1, d |-> 10] >>

DEFAULT_TOKEN_SIZE == << [n |-> 1, d |-> 4], [n |-> 1, d |-> 4] >>

\* Token.__init__; log lists the attributes in the order they were assigned
TokenInit(id, size, certainty) ==
    [id |-> id, size |-> size, certainty |-> certainty,
     pixel_corners |-> <<>>, pixel_centre |-> <<>>,
     homography_matrix |-> <<>>, cartesian |-> <<>>,
     log |-> <<"id", "size", "certainty">>]

\* dict.get(key, default): a defaultdict's default_factory is not consulted
DictGet(sizes, key, default) ==
    IF key \in DOMAIN sizes.entries THEN sizes.entries[key] ELSE default

\* the location inferred with cartesian assigned whether or not there is a
\* distance model
infer_location_eager(self, cache, homography_matrix, distance_model, image_size) ==
    LET located ==
            [self EXCEPT !.pixel_corners = _get_pixel_corners(homography_matrix),
                         !.pixel_centre = _get_pixel_centre(homography_matrix),
                         !.homography_matrix = homography_matrix,
                         !.log = self.log \o
                            <<"pixel_corners", "pixel_centre", "homography_matrix">>]
        got == _get_cartesian(cache, homography_matrix, image_size,
                              distance_model, self.size)
    IN  IF got.exc # "none"
        THEN [exc |-> "none",
              instance |-> [located EXCEPT !.log = located.log \o <<"cartesian">>],
              cache |-> got.cache, reads |-> got.reads, predicts |-> got.predicts]
        ELSE [exc |-> "none",
              instance |-> [located EXCEPT !.cartesian = got.val,
                                           !.log = located.log \o <<"cartesian">>],
              cache |-> got.cache, reads |-> got.reads, predicts |-> got.predicts]

infer_location_from_homography_matrix(self, cache, homography_matrix, distance_model, image_size) ==
    LET located ==
            [self EXCEPT !.pixel_corners = _get_pixel_corners(homography_matrix),
                         !.pixel_centre = _get_pixel_centre(homography_matrix),
                         !.homography_matrix = homography_matrix,
                         !.log = self.log \o
                            <<"pixel_corners", "pixel_centre", "homography_matrix">>]
        got == _get_cartesian(cache, homography_matrix, image_size,
                              distance_model, self.size)
    IN  IF distance_model = "None"
        THEN [exc |-> "none", instance |-> located, cache |-> cache,
              reads |-> 0, predicts |-> 0]
        ELSE IF got.exc # "none"
        THEN [exc |-> got.exc, instance |-> located, cache |-> got.cache,
              reads |-> got.reads, predicts |-> got.predicts]
        ELSE [exc |-> "none",
              instance |-> [located EXCEPT !.cartesian = got.val,
                                           !.log = located.log \o <<"cartesian">>],
              cache |-> got.cache, reads |-> got.reads, predicts |-> got.predicts]

\* the outcome of Token.from_apriltag_detection: instance is the object built
\* so far, handed to the caller only when exc is "none"
from_apriltag_detection(apriltag_detection, sizes, image_size, distance_model, cache) ==
    LET instance == TokenInit(apriltag_detection.id,
                              DictGet(sizes, apriltag_detection.id, DEFAULT_TOKEN_SIZE),
                              apriltag_detection.goodness)
        arr == [x \in 1..9 |-> apriltag_detection.H[x]]
        homography == reshape33(arr)
    IN  infer_location_from_homography_matrix(instance, cache, homography,
                                              distance_model, image_size)

(***************************************************************************)
(* Inputs of the token pipeline                                            *)
(***************************************************************************)
Coefs == 1..MaxCoef

Identity == <<1, 0, 0, 0, 1, 0, 0, 0, 1>>

\* H.data of a detection: the identity, and matrices with scale, shear,
\* translation and a perspective term (singular at a corner when g = i)
Homographies ==
    {Identity} \cup
    { <<a, 1, 3, 0, 2, 1, g, 0, i>> : a \in Coefs, g \in {0, 1}, i \in Coefs }

Quarter == [n |-> 1, d |-> 4]

Tenth == [n |-> 1, d |-> 10]

EmptyMap == [k \in {} |-> DEFAULT_TOKEN_SIZE]

PlainDict(entries) == [entries |-> entries, factory |-> <<>>]

\* a detection's id with the mapping of sizes it is looked up in
Markers ==
    { [id |-> 23, sizes |-> PlainDict(EmptyMap)],
      [id |-> 23, sizes |-> PlainDict([k \in {23} |-> <<Quarter, Quarter>>])],
      [id |-> 23, sizes |-> PlainDict([k \in {23} |-> <<Tenth, Tenth>>])],
      [id |-> 23, sizes |-> PlainDict([k \in {23} |-> <<Tenth, Quarter>>])],
      [id |-> 44, sizes |-> PlainDict([k \in {23} |-> <<Tenth, Tenth>>])] }

ImageSizes == { <<640, 480>>, <<1280, 720>> }

DistanceModelArgs == {"None", "modelA", "modelB"}

NoCall == [called |-> FALSE]

(***************************************************************************)
(* vision.py: Vision                                                       *)
(***************************************************************************)
\* the token_sizes argument: a number, a (vertical, horizontal) tuple or a
\* mapping of ids to tuples
Number(s) == [form |-> "number", number |-> s, pair |-> <<s, s>>, entries |-> EmptyMap]

Tuple(t) == [form |-> "tuple", number |-> t[1], pair |-> t, entries |-> EmptyMap]

Mapping(m) == [form |-> "mapping", number |-> Quarter, pair |-> <<>>, entries |-> m]

TokenSizeArgs ==
    { Number(Tenth), Number(Quarter),
      Tuple(<<Tenth, Quarter>>), Tuple(<<Quarter, Quarter>>),
      Mapping(EmptyMap),
      Mapping([k \in {23} |-> <<Tenth, Tenth>>]),
      Mapping([k \in {23, 44} |-> IF k = 23 THEN <<Tenth, Quarter>>
                                           ELSE <<Tenth, Tenth>>]) }

\* collections.defaultdict(factory): no entries, and a default_factory
DefaultDict(default) == [entries |-> EmptyMap, factory |-> default]

NoSizes == [entries |-> EmptyMap, factory |-> <<>>]

Unborn ==
    [life |-> "unborn", arg |-> Number(Quarter), exc |-> "none",
     has_token_sizes |-> FALSE, token_sizes |-> NoSizes,
     has_initialised |-> FALSE, initialised |-> FALSE,
     detector |-> FALSE, image |-> FALSE,
     camera_init |-> 0, detector_create |-> 0, detector_destroy |-> 0,
     image_create |-> 0, image_destroy |-> 0]

\* Vision.__init__: the last branch reads self.token_sizes, an attribute no
\* line has assigned, and raises AttributeError before self.initialised is set
VisionInit(token_sizes) ==
    LET self == [Unborn EXCEPT !.life = "live", !.arg = token_sizes]
    IN  IF token_sizes.form = "number"
        THEN [self EXCEPT !.has_token_sizes = TRUE,
                          !.token_sizes = DefaultDict(<<token_sizes.number,
                                                        token_sizes.number>>),
                          !.has_initialised = TRUE, !.initialised = FALSE]
        ELSE IF token_sizes.form = "tuple"
        THEN [self EXCEPT !.has_token_sizes = TRUE,
                          !.token_sizes = DefaultDict(token_sizes.pair),
                          !.has_initialised = TRUE, !.initialised = FALSE]
        ELSE [self EXCEPT !.life = "failed", !.exc = "AttributeError"]

\* Vision._init: camera.init(), then _init_library creates the detector and
\* the image buffer
_init(self) ==
    [self EXCEPT !.camera_init = @ + 1,
                 !.detector = TRUE, !.detector_create = @ + 1,
                 !.image = TRUE, !.image_create = @ + 1,
                 !.initialised = TRUE]

\* initialisation on every call, whether or not it was done
_lazily_init_always(self) == _init(self)

_lazily_init(self) == IF ~self.initialised THEN _init(self) ELSE self

\* Vision._deinit_library
_deinit_library(self) ==
    LET d == IF self.detector
             THEN [self EXCEPT !.detector_destroy = @ + 1] ELSE self
    IN  IF d.image THEN [d EXCEPT !.image_destroy = @ + 1] ELSE d

NoToken == TokenInit(0, <<>>, 0)

\* the call of _parse_results: Token.from_apriltag_detection(detection,
\* self.token_sizes, self.camera.focal_length).  The classmethod takes
\* (apriltag_detection, sizes, image_size, distance_model); with three
\* arguments Python raises TypeError before its body runs.
BuildToken(detection, token_sizes, focal_length) ==
    [exc |-> "TypeError", token |-> NoToken]

Event(op, i) == [op |-> op, i |-> i]

\* Vision._parse_results drained by list(): detections i..size-1 in order;
\* an exception ends the loop before lib.destroy_detection
RECURSIVE _parse_results(_, _, _, _)
_parse_results(results, i, token_sizes, focal_length) ==
    IF i > Len(results)
    THEN [exc |-> "none", tokens |-> <<>>, native |-> <<>>]
    ELSE LET built == BuildToken(results[i], token_sizes, focal_length)
             rest == _parse_results(results, i + 1, token_sizes, focal_length)
         IN  IF built.exc # "none"
             THEN [exc |-> built.exc, tokens |-> <<>>,
                   native |-> <<Event("zarray_get_detection", i)>>]
             ELSE [exc |-> rest.exc,
                   tokens |-> <<built.token>> \o rest.tokens,
                   native |-> <<Event("zarray_get_detection", i),
                                Event("destroy_detection", i)>> \o rest.native]

\* Vision.process_image: results are the detections the detector returns
process_image(self, results) ==
    LET ready == _lazily_init(self)
        tokens == _parse_results(results, 1, ready.token_sizes, 0)
    IN  IF tokens.exc # "none"
        THEN [self |-> ready, exc |-> tokens.exc, tokens |-> <<>>,
              native |-> <<Event("apriltag_detector_detect", 0)>> \o tokens.native]
        ELSE [self |-> ready, exc |-> "none", tokens |-> tokens.tokens,
              native |-> <<Event("apriltag_detector_detect", 0)>> \o tokens.native
                           \o <<Event("zarray_destroy", 0)>>]

\* detections of one frame: their ids, in the order of the result array
RECURSIVE Frames(_)
Frames(n) ==
    IF n = 0 THEN { <<>> }
    ELSE Frames(n - 1) \cup
         { Append(f, [id |-> id, goodness |-> 1, H |-> Identity]) :
             f \in { g \in Frames(n - 1) : Len(g) = n - 1 }, id \in {23, 44} }

NoVisionCall ==
    [op |-> "none", results |-> <<>>, exc |-> "none", tokens |-> <<>>, native |-> <<>>]

(***************************************************************************)
(* Calibration files.  A document is the root <opencv_storage> with its    *)
(* matrix elements; an element records its type_id attribute and its dt,   *)
(* rows, cols and data children.  Text of rows, cols and data is numeric.  *)
(***************************************************************************)
Absent == [present |-> FALSE, v |-> 0]

Present(v) == [present |-> TRUE, v |-> v]

NoData == [present |-> FALSE, v |-> <<>>]

Element(tag, type_id, dt, rows, cols, data) ==
    [present |-> TRUE, tag |-> tag, type_id |-> type_id, dt |-> dt,
     rows |-> rows, cols |-> cols, data |-> data]

NoElement(tag) ==
    [present |-> FALSE, tag |-> tag, type_id |-> "absent", dt |-> "missing",
     rows |-> Absent, cols |-> Absent, data |-> NoData]

Raise(exc, msg, names) ==
    [exc |-> exc, msg |-> msg, names |-> names, val |-> <<>>]

Return(val) == [exc |-> "none", msg |-> "", names |-> <<>>, val |-> val]

\* np.reshape(values, (rows, cols)).tolist() on float(v) of each token: one
\* dimension may be -1 and is then inferred from the number of values
Reshape(values, rows, cols) ==
    LET n == Len(values)
        bad == Raise("ValueError", "cannot reshape", <<>>)
        Rows(r, c) ==
            Return([i \in 1..r |-> [j \in 1..c |-> Float(values[(i - 1) * c + j])]])
    IN  IF rows < -1 \/ cols < -1 \/ (rows = -1 /\ cols = -1) THEN bad
        ELSE IF rows = -1
        THEN IF cols = 0 \/ n % cols # 0 THEN bad ELSE Rows(n \div cols, cols)
        ELSE IF cols = -1
        THEN IF rows = 0 \/ n % rows # 0 THEN bad ELSE Rows(rows, n \div rows)
        ELSE IF rows * cols # n THEN bad ELSE Rows(rows, cols)

(***************************************************************************)
(* find_3D_coords.py: the calibration parser                               *)
(***************************************************************************)
\* _find_element(root, name) when root has no such child
NoDescendant(root_tag, descendant_name) ==
    Raise("Exception", "has no descendant", <<root_tag, descendant_name>>)

_parse_matrix_xml_element(element) ==
    IF element.type_id # "opencv-matrix"
    THEN Raise("ValueError", "Unexpected type_id of tag", <<element.type_id>>)
    ELSE IF element.dt = "missing" THEN NoDescendant(element.tag, "dt")
    ELSE IF element.dt # "d"
    THEN Raise("ValueError", "Invalid data type in element", <<element.tag>>)
    ELSE IF ~element.rows.present THEN NoDescendant(element.tag, "rows")
    ELSE IF ~element.cols.present THEN NoDescendant(element.tag, "cols")
    ELSE IF ~element.data.present THEN NoDescendant(element.tag, "data")
    ELSE Reshape(element.data.v, element.rows.v, element.cols.v)

\* find_3D_coords.get_calibration: a pair of matrices, or the first error
get_calibration(file) ==
    LET camera_matrix ==
            IF ~file.cameraMatrix.present
            THEN NoDescendant("opencv_storage", "cameraMatrix")
            ELSE _parse_matrix_xml_element(file.cameraMatrix)
        dist_coeffs ==
            IF ~file.dist_coeffs.present
            THEN NoDescendant("opencv_storage", "dist_coeffs")
            ELSE _parse_matrix_xml_element(file.dist_coeffs)
    IN  IF camera_matrix.exc # "none" THEN camera_matrix
        ELSE IF dist_coeffs.exc # "none" THEN dist_coeffs
        ELSE Return([cameraMatrix |-> camera_matrix.val,
                     dist_coeffs |-> dist_coeffs.val])

(***************************************************************************)
(* distance_finding.py: the calibration parser                             *)
(***************************************************************************)
\* element.find(name).text when find returned None
NoneHasNoText == Raise("AttributeError", "NoneType has no attribute text", <<>>)

\* the body of the loop of distance_finding.get_calibration for one element
\* tagged cameraMatrix or dist_coeffs; errors name the file, not the element
ParseElementOld(element, file_name) ==
    IF element.type_id # "opencv-matrix"
    THEN Raise("ValueError", "Unexpected type of tag in xml file", <<file_name>>)
    ELSE IF element.dt = "missing" THEN NoneHasNoText
    ELSE IF element.dt # "d"
    THEN Raise("ValueError", "Invalid data type in xml file", <<file_name>>)
    ELSE IF ~element.rows.present THEN NoneHasNoText
    ELSE IF ~element.cols.present THEN NoneHasNoText
    ELSE IF ~element.data.present
    THEN Raise("AttributeError", "NoneType has no attribute itertext", <<>>)
    ELSE Reshape(element.data.v, element.rows.v, element.cols.v)

\* distance_finding.get_calibration: a dict of the matrices found; the
\* elements are visited in document order, an absent one is not missed
get_calibration_old(file) ==
    LET camera_matrix == ParseElementOld(file.cameraMatrix, file.name)
        dist_coeffs == ParseElementOld(file.dist_coeffs, file.name)
    IN  IF file.cameraMatrix.present /\ camera_matrix.exc # "none" THEN camera_matrix
        ELSE IF file.dist_coeffs.present /\ dist_coeffs.exc # "none" THEN dist_coeffs
        ELSE Return([has_cameraMatrix |-> file.cameraMatrix.present,
                     cameraMatrix |-> IF file.cameraMatrix.present
                                      THEN camera_matrix.val ELSE <<>>,
                     has_dist_coeffs |-> file.dist_coeffs.present,
                     dist_coeffs |-> IF file.dist_coeffs.present
                                     THEN dist_coeffs.val ELSE <<>>])

\* the body of distance_finding.load_camera_calibrations: the two entries of
\* the dict, KeyError for one that is not there
LoadCameraCalibrationsOldBody(file) ==
    LET calibrations == get_calibration_old(file)
    IN  IF calibrations.exc # "none" THEN calibrations
        ELSE IF ~calibrations.val.has_cameraMatrix
        THEN Raise("KeyError", "KeyError", <<"cameraMatrix">>)
        ELSE IF ~calibrations.val.has_dist_coeffs
        THEN Raise("KeyError", "KeyError", <<"dist_coeffs">>)
        ELSE Return([cameraMatrix |-> calibrations.val.cameraMatrix,
                     dist_coeffs |-> calibrations.val.dist_coeffs])

(***************************************************************************)
(* calculate_transforms of find_3D_coords.py and of distance_finding.py.   *)
(* solved is what cv2.solvePnP returned: return_value, and the column      *)
(* vectors orientation_vector and translation_vector.                      *)
(***************************************************************************)
\* the rectangle representing the marker in 3D
object_points(marker_size) ==
    LET width_from_centre == RDiv(marker_size[1], Float(2))
        height_from_centre == RDiv(marker_size[2], Float(2))
    IN  << <<width_from_centre, height_from_centre, Float(0)>>,
           <<width_from_centre, RNeg(height_from_centre), Float(0)>>,
           <<RNeg(width_from_centre), RNeg(height_from_centre), Float(0)>>,
           <<RNeg(width_from_centre), height_from_centre, Float(0)>> >>

\* tuple(v[0] for v in column_vector)
Column(vector) == [k \in 1..Len(vector) |-> vector[k][1]]

NoTransforms == [translation |-> <<>>, orientation |-> <<>>]

\* find_3D_coords.calculate_transforms
calculate_transforms(marker_size, solved) ==
    LET translation_vector == Column(solved.translation_vector)
        orientation_vector == Column(solved.orientation_vector)
    IN  IF ~solved.return_value
        THEN [exc |-> "ValueError", val |-> NoTransforms]
        ELSE [exc |-> "none",
              val |-> [translation |-> << translation_vector[1],
                                          RNeg(translation_vector[2]),
                                          translation_vector[3] >>,
                       orientation |-> orientation_vector]]

\* distance_finding.calculate_transforms: return_value is bound to _ and
\* the vectors are returned as the solver left them
calculate_transforms_old(marker_size, solved) ==
    [exc |-> "none",
     val |-> [translation |-> Column(solved.translation_vector),
              orientation |-> Column(solved.orientation_vector)]]

\* what cv2.solvePnP may hand back
Coordinates == { Float(v) : v \in -MaxCoord..MaxCoord }

ColumnVectors(S) == { << <<x>>, <<y>>, <<z>> >> : x \in S, y \in S, z \in S }

Solved ==
    [return_value : BOOLEAN,
     orientation_vector : { << <<Float(0)>>, <<Float(0)>>, <<Float(0)>> >>,
                            << <<Float(1)>>, <<Float(0)>>, <<Float(-1)>> >> },
     translation_vector : ColumnVectors(Coordinates)]

NoSolve ==
    [by |-> "none", marker_size |-> <<>>, object_points |-> <<>>,
     solved |-> [return_value |-> FALSE, orientation_vector |-> <<>>,
                 translation_vector |-> <<>>],
     exc |-> "none", val |-> NoTransforms]

(***************************************************************************)
(* Calibration documents read by the parsers                               *)
(***************************************************************************)
\* rows and cols as the calibration tool writes them: not negative
Dims == 0..MaxDim

Payloads == { [k \in 1..n |-> k] : n \in 0..MaxTokens }

Elements(tag) ==
    { Element(tag, type_id, dt, rows, cols, data) :
        type_id \in {"opencv-matrix", "opencv-nd-matrix", "absent"},
        dt \in {"d", "f", "missing"},
        rows \in {Absent} \cup { Present(r) : r \in Dims },
        cols \in {Absent} \cup { Present(c) : c \in Dims },
        data \in {NoData} \cup { [present |-> TRUE, v |-> v] : v \in Payloads } }

GoodElement(tag) ==
    Element(tag, "opencv-matrix", "d", Present(1), Present(2),
            [present |-> TRUE, v |-> <<1, 2>>])

Document(name, camera_matrix, dist_coeffs) ==
    [name |-> name, cameraMatrix |-> camera_matrix, dist_coeffs |-> dist_coeffs]

\* documents in which at most one of the two elements is not as the
\* calibration tool writes it
Documents ==
    { Document("C016_calibration.xml", e, o) :
        e \in Elements("cameraMatrix"),
        o \in {GoodElement("dist_coeffs"), NoElement("dist_coeffs")} }
    \cup
    { Document("C016_calibration.xml", o, e) :
        o \in {GoodElement("cameraMatrix"), NoElement("cameraMatrix")},
        e \in Elements("dist_coeffs") }

NoParse == [by |-> "none", out |-> Return(<<>>)]

(***************************************************************************)
(* The memoised loaders and the files behind them                          *)
(***************************************************************************)
\* names of camera models and of distance models
CameraNames ==
    << "cam001", "cam002", "cam003", "cam004", "cam005", "cam006", "cam007",
       "cam008", "cam009", "cam010", "cam011", "cam012", "cam013", "cam014",
       "cam015", "cam016", "cam017", "cam018", "cam019", "cam020", "cam021",
       "cam022", "cam023", "cam024", "cam025", "cam026", "cam027", "cam028",
       "cam029", "cam030", "cam031", "cam032", "cam033", "cam034", "cam035",
       "cam036", "cam037", "cam038", "cam039", "cam040", "cam041", "cam042",
       "cam043", "cam044", "cam045", "cam046", "cam047", "cam048", "cam049",
       "cam050", "cam051", "cam052", "cam053", "cam054", "cam055", "cam056",
       "cam057", "cam058", "cam059", "cam060", "cam061", "cam062", "cam063",
       "cam064", "cam065", "cam066", "cam067", "cam068", "cam069", "cam070",
       "cam071", "cam072", "cam073", "cam074", "cam075", "cam076", "cam077",
       "cam078", "cam079", "cam080", "cam081", "cam082", "cam083", "cam084",
       "cam085", "cam086", "cam087", "cam088", "cam089", "cam090", "cam091",
       "cam092", "cam093", "cam094", "cam095", "cam096", "cam097", "cam098",
       "cam099", "cam100", "cam101", "cam102", "cam103", "cam104", "cam105",
       "cam106", "cam107", "cam108", "cam109", "cam110", "cam111", "cam112",
       "cam113", "cam114", "cam115", "cam116", "cam117", "cam118", "cam119",
       "cam120", "cam121", "cam122", "cam123", "cam124", "cam125", "cam126",
       "cam127", "cam128", "cam129", "cam130", "cam131", "cam132", "cam133",
       "cam134", "cam135", "cam136", "cam137", "cam138", "cam139", "cam140" >>

\* <camera_model>_calibration.xml, as the calibration tool writes it
CalibrationFile(camera_model) ==
    Document(camera_model, GoodElement("cameraMatrix"), GoodElement("dist_coeffs"))

\* find_3D_coords.load_camera_calibrations
load_camera_calibrations(cache, camera_model) ==
    lru_cache(cache, <<camera_model>>, get_calibration(CalibrationFile(camera_model)))

\* distance_finding.load_camera_calibrations
load_camera_calibrations_old(cache, camera_model) ==
    lru_cache(cache, <<camera_model>>,
              LoadCameraCalibrationsOldBody(CalibrationFile(camera_model)))

Loaders == {"find_3D_coords", "distance_finding", "tokens"}

\* one call of a memoised loader; image_size is read by the loader of
\* tokens.py alone
CallLoader(loader, cache, name, image_size) ==
    IF loader = "find_3D_coords" THEN load_camera_calibrations(cache, name)
    ELSE IF loader = "distance_finding" THEN load_camera_calibrations_old(cache, name)
    ELSE _get_distance_model(cache, name, image_size)

KeyOf(loader, name, image_size) ==
    IF loader = "tokens" THEN <<name, image_size>> ELSE <<name>>

\* the key whose entry is followed: the first name, at the resolution of its
\* artifact
FirstKey(loader) == KeyOf(loader, CameraNames[1], ModelFile(CameraNames[1]).resolution)

NoLoad ==
    [loader |-> "none", key |-> <<>>, exc |-> "none", read |-> FALSE,
     val |-> <<>>, priorLoaded |-> FALSE, priorOthers |-> 0, priorFirst |-> <<>>]

NoHistory == [loaded |-> FALSE, first |-> <<>>, others |-> 0, fresh |-> 0]

(***************************************************************************)
(* Callers of one memoised loader on several threads.  The wrapper of      *)
(* functools.lru_cache holds no lock while the wrapped function runs: a    *)
(* call is a lookup, then on a miss the function, then the store.          *)
(***************************************************************************)
Threads == 1..MaxThreads

RaceNames == {CameraNames[1], CameraNames[2]}

\* the wrapped function of a loader, for a name whose file is well formed and
\* at the resolution of the artifact
LoaderBody(loader, name) ==
    IF loader = "find_3D_coords" THEN get_calibration(CalibrationFile(name))
    ELSE IF loader = "distance_finding"
    THEN LoadCameraCalibrationsOldBody(CalibrationFile(name))
    ELSE GetDistanceModelBody(name, ModelFile(name).resolution)

RaceKey(loader, name) == KeyOf(loader, name, ModelFile(name).resolution)

\* the object a call of the wrapped function returns: its data, and which
\* read of the file made it
Object(data, serial) == [data |-> data, obj |-> serial]

NoObject == Object(<<>>, 0)

IdleThread == [pc |-> "idle", name |-> "", val |-> NoObject, hit |-> FALSE, calls |-> 0]

NoRace ==
    [loader |-> "none", reads |-> [n \in RaceNames |-> 0],
     writes |-> [n \in RaceNames |-> 0], serial |-> 0]

\* the store that does not look for an entry added during the call
StoreResult_unchecked(cache, key, val) ==
    Append(SelectSeq(cache, LAMBDA e : e.key # key), [key |-> key, val |-> val])

\* the store after the wrapped function returned
StoreResult(cache, key, val) == CacheInsert(cache, key, val)

(***************************************************************************)
(* tokens.py: Token.__eq__.  A Python object is its class and its          *)
(* attributes.                                                             *)
(***************************************************************************)
Instance(cls, attributes) == [cls |-> cls, self |-> attributes]

isinstance(object, cls) == object.cls = cls

\* equality that also compares the sizes
__eq__by_size(self, other) ==
    IF ~isinstance(other, "Token") THEN FALSE
    ELSE self.self.id = other.self.id /\ self.self.size = other.self.size

\* Token.__eq__
__eq__(self, other) ==
    IF ~isinstance(other, "Token") THEN FALSE
    ELSE self.self.id = other.self.id

\* a == b: type(a).__eq__(a, b); the __eq__ of int, NoneType and object
\* compares operands of one class and is NotImplemented for another class,
\* and then the reflected type(b).__eq__(b, a) decides; if that is
\* NotImplemented too the objects are different objects
Equals(a, b) ==
    IF isinstance(a, "Token") THEN __eq__(a, b)
    ELSE IF a.cls = b.cls THEN a.self = b.self
    ELSE IF isinstance(b, "Token") THEN __eq__(b, a)
    ELSE FALSE

\* a Token after Token.__init__, and after cartesian was assigned as well
Tokens ==
    { Instance("Token", TokenInit(id, size, certainty)) :
        id \in {23, 44}, size \in {<<Quarter, Quarter>>, <<Tenth, Quarter>>},
        certainty \in {0, 1} }
    \cup
    { Instance("Token", [TokenInit(id, <<Tenth, Tenth>>, 1) EXCEPT
                            !.cartesian = <<Float(x), Float(0), Float(1)>>,
                            !.log = @ \o <<"cartesian">>]) :
        id \in {23, 44}, x \in {0, 1} }

NonTokens ==
    { Instance("int", [real |-> 23]), Instance("NoneType", [repr |-> "None"]),
      Instance("Detection", [id |-> 23]) }

Objects == Tokens \cup NonTokens

NoCompare ==
    [a |-> Instance("NoneType", [repr |-> "None"]), b |-> Instance("NoneType", [repr |-> "None"]),
     c |-> Instance("NoneType", [repr |-> "None"]), done |-> FALSE,
     aa |-> FALSE, ab |-> FALSE, ba |-> FALSE, bc |-> FALSE, ac |-> FALSE]

(***************************************************************************)
(* calibration/fit.py: the objective of fit.  Matrices are sequences of    *)
(* rows.  A Euclidean norm is kept as its radicand: [radicand |-> q] is    *)
(* sqrt(q), and a sum of norms is the sequence of its terms.               *)
(***************************************************************************)
RSub(a, b) == RAdd(a, RNeg(b))

\* a < b for finite a, b
RLess(a, b) == a.n * b.d < b.n * a.d

Half == [n |-> 1, d |-> 2]

\* m[:, j] with 0-based j
Col(m, j) == [i \in 1..Len(m) |-> m[i][j + 1]]

\* numpy.cross of two 3-vectors
cross(u, v) ==
    << RSub(RMul(u[2], v[3]), RMul(u[3], v[2])),
       RSub(RMul(u[3], v[1]), RMul(u[1], v[3])),
       RSub(RMul(u[1], v[2]), RMul(u[2], v[1])) >>

\* numpy.array(rows).T
Transpose(rows) ==
    [i \in 1..Len(rows[1]) |-> [j \in 1..Len(rows) |-> rows[j][i]]]

calibration_matrix(x, focal_length) ==
    << <<RMul(Float(x.size[1]), focal_length), Float(0), RMul(Half, Float(x.size[1]))>>,
       <<Float(0), RMul(Float(x.size[2]), focal_length), RMul(Half, Float(x.size[2]))>>,
       <<Float(0), Float(0), Float(1)>> >>

rotations == << <<1, 0, 0, 1>>, <<0, -1, 1, 0>>, <<-1, 0, 0, -1>>, <<0, 1, -1, 0>> >>

pose_matrix(rotation, x) ==
    << <<Float(rotation[1]), Float(rotation[2]), Float(0), x.x_offset_right>>,
       <<Float(rotation[3]), Float(rotation[4]), Float(0), Float(0)>>,
       <<Float(0), Float(0), Float(1), x.z_distance>> >>

homography_matrix_with_extra_col(x) ==
    Transpose(<< Col(x.homography_matrix, 0),
                 Col(x.homography_matrix, 1),
                 cross(Col(x.homography_matrix, 0), Col(x.homography_matrix, 1)),
                 Col(x.homography_matrix, 2) >>)

\* scipy.linalg.lstsq(a, b) for an upper triangular a with no zero on its
\* diagonal: the residual is zero and the solution is the one of a @ s = b,
\* column by column, by back substitution
lstsq(a, b) ==
    LET s3(j) == RDiv(b[3][j], a[3][3])
        s2(j) == RDiv(RSub(b[2][j], RMul(a[2][3], s3(j))), a[2][2])
        s1(j) == RDiv(RSub(RSub(b[1][j], RMul(a[1][2], s2(j))),
                           RMul(a[1][3], s3(j))), a[1][1])
    IN  << [j \in 1..Len(b[1]) |-> s1(j)],
           [j \in 1..Len(b[1]) |-> s2(j)],
           [j \in 1..Len(b[1]) |-> s3(j)] >>

\* pose_matrix - solved_pose_matrix
MatSub(p, q) == [i \in 1..Len(p) |-> [j \in 1..Len(p[i]) |-> RSub(p[i][j], q[i][j])]]

RECURSIVE SumOfSquares(_)
SumOfSquares(v) ==
    IF v = <<>> THEN Float(0)
    ELSE RAdd(RMul(Head(v), Head(v)), SumOfSquares(Tail(v)))

\* the 1-norm in place of the 2-norm, squared to be a radicand
norm_manhattan(v) ==
    LET a(k) == IF v[k].n < 0 THEN RNeg(v[k]) ELSE v[k]
        s == RAdd(a(1), RAdd(a(2), a(3)))
    IN  [radicand |-> RMul(s, s)]

\* numpy.linalg.norm of a vector
norm(v) == [radicand |-> SumOfSquares(v)]

\* max(error_levels): the first of the greatest
max(values) ==
    values[CHOOSE k \in 1..Len(values) :
              /\ \A j \in 1..Len(values) : ~RLess(values[k].radicand, values[j].radicand)
              /\ \A j \in 1..(k - 1) : RLess(values[j].radicand, values[k].radicand)]

\* the error_levels of one training example: one per rotation
error_levels(x, focal_length) ==
    [r \in 1..Len(rotations) |->
        norm(Col(MatSub(pose_matrix(rotations[r], x),
                        lstsq(calibration_matrix(x, focal_length),
                              homography_matrix_with_extra_col(x))), 3))]

\* reconstruction_error: total_error is the sum of the norms in total, in
\* the order they were added; the value returned is total_error / count
reconstruction_error(training_examples, focal_length) ==
    LET levels == [k \in 1..Len(training_examples) |->
                      error_levels(training_examples[k], focal_length)]
        total == [k \in 1..Len(training_examples) |-> max(levels[k])]
    IN  IF Len(training_examples) = 0
        THEN [exc |-> "ZeroDivisionError", levels |-> levels,
              total_error |-> total, count |-> 0]
        ELSE [exc |-> "none", levels |-> levels,
              total_error |-> total, count |-> Len(training_examples)]

\* training examples: image size, homography, where the marker was
TrainingExample(size, homography_matrix, x_offset_right, z_distance) ==
    [size |-> size, homography_matrix |-> homography_matrix,
     x_offset_right |-> x_offset_right, z_distance |-> z_distance]

FloatMatrix(m) == [i \in 1..Len(m) |-> [j \in 1..Len(m[i]) |-> Float(m[i][j])]]

TrainingExamples ==
    { TrainingExample(size, FloatMatrix(h), Float(x), Float(1)) :
        size \in { <<2, 2>>, <<4, 2>> },
        h \in { reshape33(Identity), reshape33(<<2, 1, 3, 0, 2, 1, 1, 0, 2>>) },
        x \in {0, 1} }

RECURSIVE Batches(_)
Batches(n) ==
    IF n = 0 THEN { <<>> }
    ELSE Batches(n - 1) \cup
         { Append(b, x) : b \in { c \in Batches(n - 1) : Len(c) = n - 1 },
                          x \in TrainingExamples }

\* candidate focal lengths of the minimiser, which starts from 1.0
FocalLengths == { Half, Float(1), Float(2) }

NoFit ==
    [training_examples |-> <<>>, called |-> FALSE, focal_length |-> Float(1),
     out |-> reconstruction_error(<<>>, Float(1))]

\* nothing has been compared
EqIdle == cmp = NoCompare

\* no objective has been evaluated
FitIdle == fit = NoFit

(***************************************************************************)
(* The token pipeline: one detection seen by one camera (one distance      *)
(* model), Tokens built from it again and again under different size       *)
(* mappings and image sizes.                                               *)
(***************************************************************************)
\* no Vision object exists
VisIdle == vision = Unborn /\ lastCall = NoVisionCall

\* no Token has been built
TokIdle ==
    /\ H = Identity
    /\ dm = "None"
    /\ cur = NoCall
    /\ prev = NoCall
    /\ modelCache = <<>>

\* nothing has been parsed
ParseIdle ==
    /\ doc = Document("C016_calibration.xml", GoodElement("cameraMatrix"),
                      GoodElement("dist_coeffs"))
    /\ parsed = NoParse

\* no pose has been solved
PnpIdle == solve = NoSolve

\* no loader has been called
CacheIdle == loaderCache = <<>> /\ lastLoad = NoLoad /\ history = NoHistory

\* no thread has called a loader
RaceIdle == threads = [t \in Threads |-> IdleThread] /\ race = NoRace

Init ==
    /\ H \in Homographies
    /\ dm \in DistanceModelArgs
    /\ cur = NoCall
    /\ prev = NoCall
    /\ modelCache = <<>>
    /\ VisIdle
    /\ ParseIdle
    /\ PnpIdle
    /\ CacheIdle
    /\ RaceIdle
    /\ EqIdle
    /\ FitIdle

FromApriltagDetection(id, sizes, image_size) ==
    LET detection == [id |-> id, goodness |-> 1, H |-> H]
        out == from_apriltag_detection(detection, sizes, image_size,
                                       dm, modelCache)
    IN  /\ cur' = [called |-> TRUE, id |-> id, sizes |-> sizes,
                   image_size |-> image_size,
                   exc |-> out.exc, instance |-> out.instance,
                   reads |-> out.reads, predicts |-> out.predicts]
        /\ prev' = cur
        /\ modelCache' = out.cache
        /\ UNCHANGED <<H, dm>>
        /\ UNCHANGED notTok

Next ==
    \E m \in Markers, image_size \in ImageSizes :
        FromApriltagDetection(m.id, m.sizes, image_size)

Spec == Init /\ [][Next]_vars

(***************************************************************************)
(* The Vision driver: one Vision object from construction to collection.   *)
(***************************************************************************)
VisionInitState ==
    /\ TokIdle
    /\ VisIdle
    /\ ParseIdle
    /\ PnpIdle
    /\ CacheIdle
    /\ RaceIdle
    /\ EqIdle
    /\ FitIdle

Construct(token_sizes) ==
    /\ vision.life = "unborn"
    /\ vision' = VisionInit(token_sizes)
    /\ lastCall' = [NoVisionCall EXCEPT !.op = "__init__",
                                        !.exc = VisionInit(token_sizes).exc]
    /\ UNCHANGED notVis

CaptureImage ==
    /\ vision.life = "live"
    /\ vision' = _lazily_init(vision)
    /\ lastCall' = [NoVisionCall EXCEPT !.op = "capture_image"]
    /\ UNCHANGED notVis

ProcessImage(results) ==
    /\ vision.life = "live"
    /\ LET out == process_image(vision, results)
       IN  /\ vision' = out.self
           /\ lastCall' = [op |-> "process_image", results |-> results,
                           exc |-> out.exc, tokens |-> out.tokens,
                           native |-> out.native]
    /\ UNCHANGED notVis

\* Vision.snapshot: _lazily_init, capture_image, then process_image
Snapshot(results) ==
    /\ vision.life = "live"
    /\ LET out == process_image(_lazily_init(_lazily_init(vision)), results)
       IN  /\ vision' = out.self
           /\ lastCall' = [op |-> "snapshot", results |-> results,
                           exc |-> out.exc, tokens |-> out.tokens,
                           native |-> out.native]
    /\ UNCHANGED notVis

\* Vision.__del__, also run for an object whose __init__ raised
Del ==
    /\ vision.life \in {"live", "failed"}
    /\ vision' = [_deinit_library(vision) EXCEPT !.life = "dead"]
    /\ lastCall' = [NoVisionCall EXCEPT !.op = "__del__"]
    /\ UNCHANGED notVis

VisionNext ==
    \/ \E token_sizes \in TokenSizeArgs : Construct(token_sizes)
    \/ CaptureImage
    \/ \E results \in Frames(MaxDetections) : ProcessImage(results)
    \/ \E results \in Frames(MaxDetections) : Snapshot(results)
    \/ Del

SpecVision == VisionInitState /\ [][VisionNext]_vars

(***************************************************************************)
(* The parsers: one calibration document, parsed by find_3D_coords and by  *)
(* distance_finding.                                                       *)
(***************************************************************************)
ParseInit ==
    /\ TokIdle
    /\ VisIdle
    /\ doc \in Documents
    /\ parsed = NoParse
    /\ PnpIdle
    /\ CacheIdle
    /\ RaceIdle
    /\ EqIdle
    /\ FitIdle

GetCalibration ==
    /\ parsed' = [by |-> "find_3D_coords", out |-> get_calibration(doc)]
    /\ UNCHANGED doc
    /\ UNCHANGED notParse

GetCalibrationOld ==
    /\ parsed' = [by |-> "distance_finding", out |-> get_calibration_old(doc)]
    /\ UNCHANGED doc
    /\ UNCHANGED notParse

LoadCameraCalibrationsOld ==
    /\ parsed' = [by |-> "distance_finding.load",
                  out |-> LoadCameraCalibrationsOldBody(doc)]
    /\ UNCHANGED doc
    /\ UNCHANGED notParse

ParseNext == GetCalibration \/ GetCalibrationOld \/ LoadCameraCalibrationsOld

SpecParse == ParseInit /\ [][ParseNext]_vars

(***************************************************************************)
(* The pose solver wrappers: calculate_transforms called again and again,  *)
(* the solver handing back any of its outcomes.                            *)
(***************************************************************************)
PnpInit ==
    /\ TokIdle
    /\ VisIdle
    /\ ParseIdle
    /\ solve = NoSolve
    /\ CacheIdle
    /\ RaceIdle
    /\ EqIdle
    /\ FitIdle

CalculateTransforms(marker_size, solved) ==
    LET out == calculate_transforms(marker_size, solved)
    IN  /\ solve' = [by |-> "find_3D_coords", marker_size |-> marker_size,
                     object_points |-> object_points(marker_size),
                     solved |-> solved, exc |-> out.exc, val |-> out.val]
        /\ UNCHANGED notPnp

CalculateTransformsOld(marker_size, solved) ==
    LET out == calculate_transforms_old(marker_size, solved)
    IN  /\ solve' = [by |-> "distance_finding", marker_size |-> marker_size,
                     object_points |-> object_points(marker_size),
                     solved |-> solved, exc |-> out.exc, val |-> out.val]
        /\ UNCHANGED notPnp

PnpNext ==
    \/ \E solved \in Solved : CalculateTransforms(<<Quarter, Quarter>>, solved)
    \/ \E solved \in Solved : CalculateTransformsOld(<<Quarter, Quarter>>, solved)

SpecPnp == PnpInit /\ [][PnpNext]_vars

(***************************************************************************)
(* The memoised loaders: one loader called again and again, for the first  *)
(* name or for a name no call has loaded yet; at most MaxBefore other      *)
(* names are loaded before the first name is.                              *)
(***************************************************************************)
CacheInit ==
    /\ TokIdle
    /\ VisIdle
    /\ ParseIdle
    /\ PnpIdle
    /\ CacheIdle
    /\ RaceIdle
    /\ EqIdle
    /\ FitIdle

Load(loader, i, image_size) ==
    LET name == CameraNames[i]
        key == KeyOf(loader, name, image_size)
        out == CallLoader(loader, loaderCache, name, image_size)
        ok == out.exc = "none"
    IN  /\ lastLoad.loader \in {"none", loader}
        /\ loaderCache' = out.cache
        /\ lastLoad' = [loader |-> loader, key |-> key, exc |-> out.exc,
                        read |-> out.called,
                        val |-> IF ok THEN out.val ELSE <<>>,
                        priorLoaded |-> history.loaded,
                        priorOthers |-> history.others,
                        priorFirst |-> history.first]
        /\ history' =
             IF ~ok THEN history
             ELSE IF key = FirstKey(loader)
             THEN [history EXCEPT !.loaded = TRUE, !.others = 0,
                                  !.first = IF history.loaded THEN @ ELSE out.val]
             ELSE [history EXCEPT !.others = @ + 1, !.fresh = @ + 1]
        /\ UNCHANGED notCache

\* the image sizes a loader can be asked for: the camera loaders take none
SizesFor(loader) == IF loader = "tokens" THEN ImageSizes ELSE { <<>> }

CacheNext ==
    \E loader \in Loaders :
        \E image_size \in SizesFor(loader) :
            \/ Load(loader, 1, image_size)
            \/ /\ history.fresh + 2 <= MaxNames
               /\ history.loaded \/ history.fresh < MaxBefore
               /\ Load(loader, history.fresh + 2, image_size)

SpecCache == CacheInit /\ [][CacheNext]_vars

(***************************************************************************)
(* Concurrent callers of one memoised loader.                              *)
(***************************************************************************)
RaceInit ==
    /\ TokIdle
    /\ VisIdle
    /\ ParseIdle
    /\ PnpIdle
    /\ CacheIdle
    /\ RaceIdle
    /\ EqIdle
    /\ FitIdle

\* the lookup of a call: a hit returns the cached object
Lookup(t, loader, name) ==
    /\ threads[t].pc = "idle"
    /\ threads[t].calls < MaxCalls
    /\ race.loader \in {"none", loader}
    /\ race' = [race EXCEPT !.loader = loader]
    /\ IF CacheHas(loaderCache, RaceKey(loader, name))
       THEN /\ threads' = [threads EXCEPT ![t] =
                              [@ EXCEPT !.pc = "returned", !.name = name, !.hit = TRUE,
                                        !.val = CacheGet(loaderCache, RaceKey(loader, name))]]
            /\ loaderCache' = CacheTouch(loaderCache, RaceKey(loader, name))
       ELSE /\ threads' = [threads EXCEPT ![t] =
                              [@ EXCEPT !.pc = "missed", !.name = name, !.hit = FALSE,
                                        !.val = NoObject]]
            /\ UNCHANGED loaderCache
    /\ UNCHANGED <<lastLoad, history>>
    /\ UNCHANGED <<tokVars, visVars, parseVars, pnpVars, eqVars, fitVars>>

\* the wrapped function runs and reads the file
CallBody(t) ==
    /\ threads[t].pc = "missed"
    /\ threads' = [threads EXCEPT ![t] =
                      [@ EXCEPT !.pc = "loaded",
                                !.val = Object(LoaderBody(race.loader, threads[t].name).val,
                                               race.serial + 1)]]
    /\ race' = [race EXCEPT !.reads[threads[t].name] = @ + 1, !.serial = @ + 1]
    /\ UNCHANGED cacheVars
    /\ UNCHANGED <<tokVars, visVars, parseVars, pnpVars, eqVars, fitVars>>

\* the store: the caller returns the object it loaded itself
Store(t) ==
    /\ threads[t].pc = "loaded"
    /\ loaderCache' = StoreResult(loaderCache, RaceKey(race.loader, threads[t].name),
                                  threads[t].val)
    /\ race' = [race EXCEPT !.writes[threads[t].name] =
                                IF loaderCache' # loaderCache THEN @ + 1 ELSE @]
    /\ threads' = [threads EXCEPT ![t] = [@ EXCEPT !.pc = "returned"]]
    /\ UNCHANGED <<lastLoad, history>>
    /\ UNCHANGED <<tokVars, visVars, parseVars, pnpVars, eqVars, fitVars>>

\* the caller goes on to its next call
Finish(t) ==
    /\ threads[t].pc = "returned"
    /\ threads' = [threads EXCEPT ![t] = [@ EXCEPT !.pc = "idle", !.calls = @ + 1]]
    /\ UNCHANGED race
    /\ UNCHANGED cacheVars
    /\ UNCHANGED <<tokVars, visVars, parseVars, pnpVars, eqVars, fitVars>>

RaceNext ==
    \E t \in Threads :
        \/ \E loader \in Loaders, name \in RaceNames : Lookup(t, loader, name)
        \/ CallBody(t)
        \/ Store(t)
        \/ Finish(t)

SpecRace == RaceInit /\ [][RaceNext]_vars

(***************************************************************************)
(* Comparisons of Tokens with == .                                         *)
(***************************************************************************)
EqInit ==
    /\ TokIdle
    /\ VisIdle
    /\ ParseIdle
    /\ PnpIdle
    /\ CacheIdle
    /\ RaceIdle
    /\ FitIdle
    /\ \E a \in Objects, b \in Objects, c \in Objects :
         cmp = [NoCompare EXCEPT !.a = a, !.b = b, !.c = c]

Compare ==
    /\ ~cmp.done
    /\ cmp' = [cmp EXCEPT !.done = TRUE,
                          !.aa = Equals(cmp.a, cmp.a),
                          !.ab = Equals(cmp.a, cmp.b),
                          !.ba = Equals(cmp.b, cmp.a),
                          !.bc = Equals(cmp.b, cmp.c),
                          !.ac = Equals(cmp.a, cmp.c)]
    /\ UNCHANGED notEq

EqNext == Compare

SpecEq == EqInit /\ [][EqNext]_vars

(***************************************************************************)
(* fit(training_examples): the minimiser evaluates reconstruction_error    *)
(* at one candidate after another.                                         *)
(***************************************************************************)
FitInit ==
    /\ TokIdle
    /\ VisIdle
    /\ ParseIdle
    /\ PnpIdle
    /\ CacheIdle
    /\ RaceIdle
    /\ EqIdle
    /\ \E training_examples \in Batches(MaxExamples) :
         fit = [NoFit EXCEPT !.training_examples = training_examples]

ReconstructionError(focal_length) ==
    /\ fit' = [fit EXCEPT !.called = TRUE, !.focal_length = focal_length,
                          !.out = reconstruction_error(fit.training_examples,
                                                       focal_length)]
    /\ UNCHANGED notFit

FitNext == \E focal_length \in FocalLengths : ReconstructionError(focal_length)

SpecFit == FitInit /\ [][FitNext]_vars

(***************************************************************************)
(* Properties of the token pipeline                                        *)
(***************************************************************************)
\* the homogeneous scale of H (row-major, 9 elements) at the point (px, py)
ScaleAt(px, py) == H[7] * px + H[8] * py + H[9]

NonDegenerate ==
    /\ \A k \in 1..4 : ScaleAt(corners[k][1], corners[k][2]) # 0
    /\ ScaleAt(0, 0) # 0

\* v is the float num / z, for z # 0
IsQuotient(v, num, z) == v.d # 0 /\ v.n * z = v.d * num

IsProjection(pt, px, py) ==
    /\ Len(pt) = 2
    /\ IsQuotient(pt[1], H[1] * px + H[2] * py + H[3], ScaleAt(px, py))
    /\ IsQuotient(pt[2], H[4] * px + H[5] * py + H[6], ScaleAt(px, py))

\* C1: when the homogeneous scale is non-zero at every canonical point, the
\* Token's pixel_corners are exactly 4 points, the projections
\* ((row0.p)/z, (row1.p)/z) of (-1,-1), (-1,1), (1,1), (1,-1) in that order,
\* and pixel_centre is the projection of (0,0); for the identity homography
\* the corners are the canonical square and the centre is (0,0).
C1_PixelCornersAreProjections ==
    (cur.called /\ NonDegenerate) =>
        /\ Len(cur.instance.pixel_corners) = 4
        /\ IsProjection(cur.instance.pixel_corners[1], -1, -1)
        /\ IsProjection(cur.instance.pixel_corners[2], -1, 1)
        /\ IsProjection(cur.instance.pixel_corners[3], 1, 1)
        /\ IsProjection(cur.instance.pixel_corners[4], 1, -1)
        /\ IsProjection(cur.instance.pixel_centre, 0, 0)
        /\ (H = <<1, 0, 0, 0, 1, 0, 0, 0, 1>> =>
                /\ cur.instance.pixel_corners =
                     << <<Float(-1), Float(-1)>>, <<Float(-1), Float(1)>>,
                        <<Float(1), Float(1)>>, <<Float(1), Float(-1)>> >>
                /\ cur.instance.pixel_centre = <<Float(0), Float(0)>>)

\* a Token built from a perspective homography: the corner (1,1) lands on
\* x = 5/3, a true division by the scale z = 3
C1_Witness ==
    /\ cur.called
    /\ NonDegenerate
    /\ H = <<1, 1, 3, 0, 2, 1, 1, 0, 2>>
    /\ cur.instance.pixel_corners[3] = <<[n |-> 5, d |-> 3], [n |-> 1, d |-> 1]>>

\* a call asks for a distance model whose resolution is not its image size
Mismatched(call) ==
    /\ call.called
    /\ dm # "None"
    /\ call.image_size # ModelFile(dm).resolution

\* C2: every call whose image_size differs from the artifact's resolution
\* fails with the resolution-mismatch error (a ValueError), consults no
\* regressor and leaves no cartesian on the Token, whatever was loaded before.
C2_ResolutionMismatchFails ==
    Mismatched(cur) =>
        /\ cur.exc = "ValueError"
        /\ cur.predicts = 0
        /\ cur.instance.cartesian = <<>>
        /\ \A k \in 1..Len(cur.instance.log) : cur.instance.log[k] # "cartesian"

\* a mismatched call after the model was loaded and after an earlier
\* mismatched call
C2_Witness ==
    /\ Mismatched(cur)
    /\ Mismatched(prev)
    /\ modelCache # <<>>
    /\ cur.exc = "ValueError"

Located(call) == call.called /\ call.exc = "none" /\ dm # "None"

\* c is p * (s1 + s2) / 2 / (1/10), cross-multiplied
IsScaled(c, p, size) ==
    RMul(Float(2), RMul(c, [n |-> 1, d |-> 10])) = RMul(Float(p), RAdd(size[1], size[2]))

\* C3: the position is (x_model(H), 0, z_model(H)) times mean(size) / 0.1:
\* y is 0, and two Tokens of the same detection and model have positions in
\* the ratio of the means of their sizes.
C3_MarkerSizeScalingLinear ==
    /\ Located(cur) =>
        /\ Len(cur.instance.cartesian) = 3
        /\ IsScaled(cur.instance.cartesian[1],
                    predict(ModelFile(dm).x_model, H), cur.instance.size)
        /\ cur.instance.cartesian[2] = Float(0)
        /\ IsScaled(cur.instance.cartesian[3],
                    predict(ModelFile(dm).z_model, H), cur.instance.size)
    /\ (Located(cur) /\ Located(prev)) =>
        \A k \in 1..3 :
            RMul(cur.instance.cartesian[k],
                 RAdd(prev.instance.size[1], prev.instance.size[2]))
              = RMul(prev.instance.cartesian[k],
                     RAdd(cur.instance.size[1], cur.instance.size[2]))

\* sizes (0.25, 0.25) then (0.10, 0.10): the distances are in ratio 2.5
C3_Witness ==
    /\ Located(cur) /\ Located(prev)
    /\ prev.instance.size = <<[n |-> 1, d |-> 4], [n |-> 1, d |-> 4]>>
    /\ cur.instance.size = <<[n |-> 1, d |-> 10], [n |-> 1, d |-> 10]>>
    /\ cur.instance.cartesian[3].n > 0
    /\ prev.instance.cartesian[3] = RMul([n |-> 5, d |-> 2], cur.instance.cartesian[3])

Unknown(call) == call.called /\ call.id \notin DOMAIN call.sizes.entries

\* C4: a detection whose id is absent from the size mapping gets the size
\* (0.25, 0.25) and fails only as a known id would (on a resolution
\* mismatch); its position is the one of the same detection with the id
\* mapped to (0.25, 0.25); a detection whose id is present gets the mapped
\* size.
C4_UnknownIdDefaultSize ==
    /\ Unknown(cur) =>
        /\ cur.instance.size = <<[n |-> 1, d |-> 4], [n |-> 1, d |-> 4]>>
        /\ cur.instance.id = cur.id
        /\ (cur.exc # "none" => Mismatched(cur))
    /\ (cur.called /\ ~Unknown(cur)) =>
        cur.instance.size = cur.sizes.entries[cur.id]
    /\ \A a \in {cur, prev}, b \in {cur, prev} :
        (/\ Unknown(a)
         /\ b.called /\ ~Unknown(b)
         /\ b.sizes.entries[b.id] = <<[n |-> 1, d |-> 4], [n |-> 1, d |-> 4]>>
         /\ a.image_size = b.image_size)
        => /\ a.exc = b.exc
           /\ a.instance.cartesian = b.instance.cartesian

\* an id looked up in the empty mapping, then mapped to (0.25, 0.25): both
\* Tokens carry the same position
C4_Witness ==
    /\ Unknown(prev)
    /\ prev.sizes.entries = EmptyMap
    /\ cur.called /\ ~Unknown(cur)
    /\ cur.sizes.entries[cur.id] = <<[n |-> 1, d |-> 4], [n |-> 1, d |-> 4]>>
    /\ Located(prev) /\ Located(cur)
    /\ Len(cur.instance.cartesian) = 3
    /\ prev.instance.cartesian = cur.instance.cartesian

\* the homography has scale zero at a canonical point
Degenerate == ~NonDegenerate

\* C11: projecting through a homography whose scale z is zero at a canonical
\* point fails to the caller: the construction raises, and the Token gets no
\* pixel_corners and no pixel_centre.
C11_DegenerateHomographyFails ==
    (cur.called /\ Degenerate) =>
        /\ cur.exc # "none"
        /\ cur.instance.pixel_corners = <<>>
        /\ cur.instance.pixel_centre = <<>>

\* a Token built without any exception from a homography with z = 0 at the
\* corner (-1,-1): that pixel corner is (1/0, -1/0) = (inf, -inf)
C11_Witness ==
    /\ cur.called
    /\ H = <<1, 1, 3, 0, 2, 1, 1, 0, 1>>
    /\ cur.exc = "none"
    /\ cur.instance.pixel_corners[1] = <<[n |-> 1, d |-> 0], [n |-> -1, d |-> 0]>>
    /\ ~IsFinite(cur.instance.pixel_corners[1][1])

\* how many times attribute was assigned
Assignments(log, attribute) ==
    Cardinality({ k \in 1..Len(log) : log[k] = attribute })

\* C13: one construction assigns id, size and certainty once, first, then
\* pixel_corners, pixel_centre and homography_matrix, always; cartesian is
\* assigned at most once, last, and only when there is a distance model:
\* with distance_model None the Token has no cartesian; id, size and
\* certainty are as Token.__init__ left them.
C13_FieldsSetOnce ==
    cur.called =>
        /\ SubSeq(cur.instance.log, 1, 6) =
             <<"id", "size", "certainty",
               "pixel_corners", "pixel_centre", "homography_matrix">>
        /\ \A attribute \in {"id", "size", "certainty", "pixel_corners",
                             "pixel_centre", "homography_matrix"} :
             Assignments(cur.instance.log, attribute) = 1
        /\ Assignments(cur.instance.log, "cartesian") <= 1
        /\ Len(cur.instance.log) = 6 + Assignments(cur.instance.log, "cartesian")
        /\ Assignments(cur.instance.log, "cartesian") = 1 => dm # "None"
        /\ dm = "None" => cur.instance.cartesian = <<>>
        /\ Len(cur.instance.pixel_corners) = 4
        /\ Len(cur.instance.pixel_centre) = 2
        /\ cur.instance.homography_matrix = reshape33(H)
        /\ cur.instance.id = cur.id
        /\ cur.instance.size = DictGet(cur.sizes, cur.id, DEFAULT_TOKEN_SIZE)
        /\ cur.instance.certainty = 1

\* a Token built with no distance model: six assignments, no cartesian
C13_Witness ==
    /\ cur.called
    /\ dm = "None"
    /\ cur.exc = "none"
    /\ Len(cur.instance.log) = 6
    /\ cur.instance.cartesian = <<>>
    /\ cur.instance.size = <<Tenth, Quarter>>

(***************************************************************************)
(* Properties of the Vision driver                                         *)
(***************************************************************************)
\* the size the documentation of Vision.__init__ gives a token with id i
ExpectedSize(arg, i) ==
    IF arg.form = "number" THEN <<arg.number, arg.number>>
    ELSE IF arg.form = "tuple" THEN arg.pair
    ELSE IF i \in DOMAIN arg.entries THEN arg.entries[i]
    ELSE <<[n |-> 1, d |-> 4], [n |-> 1, d |-> 4]>>

\* C5: Vision accepts token_sizes as a number, a tuple or a mapping:
\* construction succeeds for all three forms and leaves one mapping in
\* token_sizes, and every detected token with id i is given the size (s, s),
\* t or mapping[i] (the default when i is absent).
C5_TokenSizesNormalised ==
    /\ vision.life # "unborn" =>
        /\ vision.exc = "none"
        /\ vision.has_token_sizes
    /\ lastCall.op \in {"process_image", "snapshot"} =>
        /\ lastCall.exc = "none"
        /\ Len(lastCall.tokens) = Len(lastCall.results)
        /\ \A k \in 1..Len(lastCall.tokens) :
             lastCall.tokens[k].size = ExpectedSize(vision.arg, lastCall.results[k].id)

\* the calls that need the camera and the detector
Working == lastCall.op \in {"capture_image", "process_image", "snapshot"}

Positions(event) ==
    { k \in 1..Len(lastCall.native) : lastCall.native[k] = event }

\* C16: process_image returns one Token per detection of the result array,
\* in array order; every detection fetched is destroyed, after its Token was
\* built and before the array is destroyed; the array is destroyed exactly
\* once per call, also when building a Token fails.
C16_TokensInOrderResourcesReleased ==
    lastCall.op \in {"process_image", "snapshot"} =>
        /\ Len(lastCall.tokens) = Len(lastCall.results)
        /\ \A k \in 1..Len(lastCall.tokens) :
             lastCall.tokens[k].id = lastCall.results[k].id
        /\ Cardinality(Positions(Event("zarray_destroy", 0))) = 1
        /\ \A i \in 1..Len(lastCall.results) :
             Positions(Event("zarray_get_detection", i)) # {} =>
                \E d \in Positions(Event("destroy_detection", i)) :
                   /\ \A g \in Positions(Event("zarray_get_detection", i)) : g < d
                   /\ \A z \in Positions(Event("zarray_destroy", 0)) : d < z

\* a frame with two detections: the first is fetched, building its Token
\* raises TypeError, and neither the detection nor the array is destroyed
C16_Witness ==
    /\ lastCall.op = "process_image"
    /\ Len(lastCall.results) = 2
    /\ lastCall.exc = "TypeError"
    /\ lastCall.tokens = <<>>
    /\ lastCall.native = <<Event("apriltag_detector_detect", 0),
                           Event("zarray_get_detection", 1)>>

(***************************************************************************)
(* Properties of the calibration parsers                                   *)
(***************************************************************************)
ElementsOf(file) == {file.cameraMatrix, file.dist_coeffs}

\* what is wrong with a document: <<element, what>> pairs
Defects(file) ==
    { <<e.tag, "absent">> : e \in { x \in ElementsOf(file) : ~x.present } }
    \cup { <<e.tag, "type_id">> :
            e \in { x \in ElementsOf(file) : x.present /\ x.type_id # "opencv-matrix" } }
    \cup { <<e.tag, "dt not d">> :
            e \in { x \in ElementsOf(file) : x.present /\ x.dt \notin {"d", "missing"} } }
    \cup { <<e.tag, "dt">> :
            e \in { x \in ElementsOf(file) : x.present /\ x.dt = "missing" } }
    \cup { <<e.tag, "rows">> :
            e \in { x \in ElementsOf(file) : x.present /\ ~x.rows.present } }
    \cup { <<e.tag, "cols">> :
            e \in { x \in ElementsOf(file) : x.present /\ ~x.cols.present } }
    \cup { <<e.tag, "data">> :
            e \in { x \in ElementsOf(file) : x.present /\ ~x.data.present } }
    \cup { <<e.tag, "count">> :
            e \in { x \in ElementsOf(file) :
                      /\ x.present /\ x.rows.present /\ x.cols.present /\ x.data.present
                      /\ Len(x.data.v) # x.rows.v * x.cols.v } }

Names(out) == { out.names[k] : k \in 1..Len(out.names) }

\* m holds the tokens of element e row by row
IsRowMajor(m, e) ==
    /\ Len(m) = e.rows.v
    /\ \A r \in 1..Len(m) :
         /\ Len(m[r]) = e.cols.v
         /\ \A c \in 1..Len(m[r]) : m[r][c] = Float(e.data.v[(r - 1) * e.cols.v + c])

\* C8: parsing fails, with no matrices, when an element's data type is not
\* 'd' (an error naming the element), when dt, rows, cols or data, or
\* cameraMatrix or dist_coeffs, is missing (an error naming what is missing),
\* when type_id is not 'opencv-matrix', and when the number of tokens is not
\* rows * cols; otherwise both matrices come back row-major, rows x cols.
C8_ParseFailsOrReshapes ==
    parsed.by # "none" =>
        /\ Defects(doc) # {} => (parsed.out.exc # "none" /\ parsed.out.val = <<>>)
        /\ \A tag \in {"cameraMatrix", "dist_coeffs"} :
             /\ Defects(doc) = {<<tag, "dt not d">>} =>
                    (parsed.out.exc = "ValueError" /\ tag \in Names(parsed.out))
             /\ Defects(doc) = {<<tag, "absent">>} => tag \in Names(parsed.out)
             /\ \A sub \in {"dt", "rows", "cols", "data"} :
                    Defects(doc) = {<<tag, sub>>} =>
                        (tag \in Names(parsed.out) /\ sub \in Names(parsed.out))
        /\ Defects(doc) = {} =>
             /\ parsed.out.exc = "none"
             /\ IsRowMajor(parsed.out.val.cameraMatrix, doc.cameraMatrix)
             /\ IsRowMajor(parsed.out.val.dist_coeffs, doc.dist_coeffs)

(***************************************************************************)
(* Properties of the pose solver wrappers                                  *)
(***************************************************************************)
\* C9: on every successful solve calculate_transforms returns the solver's
\* translation with y negated and x, z unchanged, and the solver's rotation
\* vector as it is.
C9_TranslationYFlipped ==
    (solve.by # "none" /\ solve.solved.return_value) =>
        /\ solve.exc = "none"
        /\ solve.val.translation =
             << solve.solved.translation_vector[1][1],
                [n |-> -solve.solved.translation_vector[2][1].n,
                 d |-> solve.solved.translation_vector[2][1].d],
                solve.solved.translation_vector[3][1] >>
        /\ solve.val.orientation =
             << solve.solved.orientation_vector[1][1],
                solve.solved.orientation_vector[2][1],
                solve.solved.orientation_vector[3][1] >>

\* C10: when the solver reports failure calculate_transforms raises to its
\* caller and returns no translation and no orientation.
C10_SolveFailureRaised ==
    (solve.by # "none" /\ ~solve.solved.return_value) =>
        /\ solve.exc # "none"
        /\ solve.val = NoTransforms

(***************************************************************************)
(* Properties of the memoised loaders                                      *)
(***************************************************************************)
\* the latest call asked for the first key, which an earlier call had loaded
Reload == lastLoad.loader # "none" /\ lastLoad.key = FirstKey(lastLoad.loader)
          /\ lastLoad.priorLoaded

Returned(t) == threads[t].pc = "returned"

\* C7 as stated: concurrent first loads of one key are serialised: the file
\* is read once per key, the entry is written once per key, and the callers
\* receive the same cached value.
C7_FirstLoadSerialised ==
    /\ \A n \in RaceNames : race.reads[n] <= 1 /\ race.writes[n] <= 1
    /\ \A t \in Threads, u \in Threads :
         (Returned(t) /\ Returned(u) /\ threads[t].name = threads[u].name)
            => threads[t].val = threads[u].val

\* C7 as amended: concurrent first loads of one key are not serialised: each
\* caller that missed reads the file itself, so the file is read at most
\* once per caller; the entry is written once per key, by the first caller
\* to finish; every caller receives a value equal to the cached one, and a
\* caller that found the entry receives the cached object itself.
C7_EntryWrittenOnce ==
    /\ \A n \in RaceNames :
         /\ race.reads[n] <= Cardinality(Threads)
         /\ race.writes[n] <= 1
    /\ \A t \in Threads :
         Returned(t) =>
            /\ CacheHas(loaderCache, RaceKey(race.loader, threads[t].name))
            /\ threads[t].val.data =
                 CacheGet(loaderCache, RaceKey(race.loader, threads[t].name)).data
            /\ threads[t].hit =>
                 threads[t].val = CacheGet(loaderCache, RaceKey(race.loader, threads[t].name))

\* two callers missed on the same key and both read the file; both have
\* returned, one of them an object that is not the cached one
C7_Witness ==
    /\ Returned(1) /\ Returned(2)
    /\ threads[1].name = threads[2].name
    /\ ~threads[1].hit /\ ~threads[2].hit
    /\ race.reads[threads[1].name] = 2
    /\ race.writes[threads[1].name] = 1
    /\ threads[1].val # threads[2].val

(***************************************************************************)
(* Properties of Token equality                                            *)
(***************************************************************************)
IsToken(object) == object.cls = "Token"

\* C12: for Tokens a and b, a == b exactly when a.id == b.id, whatever
\* their size, certainty and coordinates; == is reflexive, symmetric and
\* transitive on Tokens; a Token compared with a non-Token, on either side,
\* is not equal to it.
C12_EqualityById ==
    cmp.done =>
        /\ (IsToken(cmp.a) /\ IsToken(cmp.b)) =>
              /\ cmp.ab = (cmp.a.self.id = cmp.b.self.id)
              /\ cmp.ab = cmp.ba
        /\ IsToken(cmp.a) => cmp.aa
        /\ (IsToken(cmp.a) /\ IsToken(cmp.b) /\ IsToken(cmp.c)) =>
              ((cmp.ab /\ cmp.bc) => cmp.ac)
        /\ (IsToken(cmp.a) /\ ~IsToken(cmp.b)) => (~cmp.ab /\ ~cmp.ba)
        /\ (IsToken(cmp.a) /\ ~IsToken(cmp.c)) => ~cmp.ac

\* two Tokens of id 23 that differ in size, certainty and cartesian are
\* equal, and neither equals a detection with id 23
C12_Witness ==
    /\ cmp.done
    /\ IsToken(cmp.a) /\ IsToken(cmp.b)
    /\ cmp.a.self.id = 23 /\ cmp.b.self.id = 23
    /\ cmp.a.self.size # cmp.b.self.size
    /\ cmp.a.self.certainty # cmp.b.self.certainty
    /\ cmp.a.self.cartesian # cmp.b.self.cartesian
    /\ cmp.c = Instance("Detection", [id |-> 23])
    /\ cmp.ab /\ cmp.ba /\ ~cmp.bc /\ ~cmp.ac

(***************************************************************************)
(* Properties of the calibration objective                                 *)
(***************************************************************************)
\* the translation column the example expects
Expected(x) == <<x.x_offset_right, Float(0), x.z_distance>>

\* the translation column observed: the solution s of
\* calibration_matrix @ s = homography_matrix[:, 2]
Observed(x, f) ==
    LET h == Col(x.homography_matrix, 2)
        w == Float(x.size[1])
        ht == Float(x.size[2])
    IN  << RDiv(RSub(h[1], RMul(RMul(Half, w), h[3])), RMul(w, f)),
           RDiv(RSub(h[2], RMul(RMul(Half, ht), h[3])), RMul(ht, f)),
           h[3] >>

\* the square of the Euclidean distance between two 3-vectors
Distance2(u, v) ==
    RAdd(RMul(RSub(u[1], v[1]), RSub(u[1], v[1])),
         RAdd(RMul(RSub(u[2], v[2]), RSub(u[2], v[2])),
              RMul(RSub(u[3], v[3]), RSub(u[3], v[3]))))

Evaluated == fit.called /\ Len(fit.training_examples) >= 1

\* C14: for a candidate focal length every example has 4 error levels, one
\* per rotation hypothesis, each the Euclidean distance between the expected
\* and the observed translation column; the example's error is the greatest
\* of the 4; the objective is the sum of the examples' errors divided by the
\* number of examples.
C14_MeanOfWorstCase ==
    Evaluated =>
        /\ fit.out.exc = "none"
        /\ fit.out.count = Len(fit.training_examples)
        /\ Len(fit.out.total_error) = Len(fit.training_examples)
        /\ \A k \in 1..Len(fit.training_examples) :
             /\ Len(fit.out.levels[k]) = 4
             /\ \A r \in 1..4 :
                  fit.out.levels[k][r].radicand =
                     Distance2(Expected(fit.training_examples[k]),
                               Observed(fit.training_examples[k], fit.focal_length))
             /\ \E r \in 1..4 : fit.out.total_error[k] = fit.out.levels[k][r]
             /\ \A r \in 1..4 :
                  ~RLess(fit.out.total_error[k].radicand, fit.out.levels[k][r].radicand)

\* two examples evaluated at focal length 2 whose errors differ and are not
\* zero: the objective is their sum over 2
C14_Witness ==
    /\ Evaluated
    /\ fit.focal_length = Float(2)
    /\ fit.out.count = 2
    /\ fit.out.total_error[1].radicand # fit.out.total_error[2].radicand
    /\ fit.out.total_error[1].radicand.n > 0

\* C17: the rotation hypotheses are distinguishable: in an evaluation an
\* example has two hypotheses whose errors differ, so that the maximum is
\* not the error of every single hypothesis.
C17_HypothesesDistinguishable ==
    Evaluated =>
        \E k \in 1..Len(fit.training_examples) :
            \E i \in 1..4, j \in 1..4 : fit.out.levels[k][i] # fit.out.levels[k][j]

\* an example with a non-zero error that is the same under all 4 hypotheses
C17_Witness ==
    /\ Evaluated
    /\ Len(fit.training_examples) = 1
    /\ fit.out.levels[1][1].radicand.n > 0
    /\ \A i \in 1..4 : fit.out.levels[1][i] = fit.out.levels[1][1]
    /\ fit.out.total_error[1] = fit.out.levels[1][3]

====
